---- MODULE Spec2Model ----
(***************************************************************************)
(* Model of lasagne/objectives.py: the loss functions mse, crossentropy    *)
(* and multinomial_nll, and the wrappers Objective and MaskedObjective.    *)
(*                                                                         *)
(* The code builds symbolic tensor expressions.  An expression is a record *)
(* with an "op" field; a raised exception is the record                    *)
(* [op |-> "raise", exc |-> ...], which every operation propagates.        *)
(* Eval gives an expression its numeric value under a binding of its       *)
(* placeholders, with exact rational arithmetic extended by inf and nan.   *)
(***************************************************************************)
EXTENDS Integers, Sequences, FiniteSets, TLC

VARIABLES self, self0, calls, call, ret, env, val

vars == <<self, self0, calls, call, ret, env, val>>

(***************************************************************************)
(* Bounds of the numeric data: matrices have two rows (a minibatch of two) *)
(* and Cols columns, with entries in 0..MaxVal.                            *)
(***************************************************************************)
Cols == 1

MaxVal == 2

Idx == {1, 2} \X (1..Cols)

Vals == 0..MaxVal

Mat == [Idx -> Vals]

(***************************************************************************)
(* Numbers: <<n, d>> is n/d in lowest terms with d > 0; <<1, 0>> is +inf,  *)
(* <<-1, 0>> is -inf and <<0, 0>> is nan, as floating point division       *)
(* produces them.                                                          *)
(***************************************************************************)
Abs(n) == IF n < 0 THEN -n ELSE n

Sgn(n) == IF n < 0 THEN -1 ELSE IF n > 0 THEN 1 ELSE 0

RECURSIVE Gcd(_, _)
Gcd(a, b) == IF b = 0 THEN a ELSE Gcd(b, a % b)

Norm(n, d) ==
    IF d = 0 THEN <<Sgn(n), 0>>
    ELSE LET g == Gcd(Abs(n), Abs(d))
         IN  <<(Sgn(d) * n) \div g, Abs(d) \div g>>

NaN == <<0, 0>>

RInt(n) == <<n, 1>>

RNeg(p) == <<-p[1], p[2]>>

RAdd(p, q) ==
    IF p[2] = 0 /\ q[2] = 0
    THEN (IF p = q THEN p ELSE NaN)
    ELSE Norm(p[1] * q[2] + q[1] * p[2], p[2] * q[2])

RSub(p, q) == RAdd(p, RNeg(q))

RMul(p, q) == Norm(p[1] * q[1], p[2] * q[2])

RInv(p) == IF p[1] < 0 THEN <<-p[2], -p[1]>> ELSE <<p[2], p[1]>>

RDiv(p, q) == RMul(p, RInv(q))

RECURSIVE RPow(_, _)
RPow(p, n) == IF n = 0 THEN RInt(1) ELSE RMul(p, RPow(p, n - 1))

(***************************************************************************)
(* Tensor values: a scalar [k |-> "s", v |-> number] or a matrix           *)
(* [k |-> "m", v |-> [Idx -> number]].  A binary elementwise operation     *)
(* broadcasts a scalar operand over a matrix operand.                      *)
(***************************************************************************)
Scalar(p) == [k |-> "s", v |-> p]

Matrix(f) == [k |-> "m", v |-> f]

At(u, i) == IF u.k = "s" THEN u.v ELSE u.v[i]

IsScalarPair(u, w) == u.k = "s" /\ w.k = "s"

VSub(u, w) ==
    IF IsScalarPair(u, w) THEN Scalar(RSub(u.v, w.v))
    ELSE Matrix([i \in Idx |-> RSub(At(u, i), At(w, i))])

VMul(u, w) ==
    IF IsScalarPair(u, w) THEN Scalar(RMul(u.v, w.v))
    ELSE Matrix([i \in Idx |-> RMul(At(u, i), At(w, i))])

VDiv(u, w) ==
    IF IsScalarPair(u, w) THEN Scalar(RDiv(u.v, w.v))
    ELSE Matrix([i \in Idx |-> RDiv(At(u, i), At(w, i))])

RECURSIVE SumOver(_, _)
SumOver(f, S) ==
    IF S = {} THEN RInt(0)
    ELSE LET i == CHOOSE j \in S : TRUE
         IN  RAdd(f[i], SumOver(f, S \ {i}))

VSum(u) == IF u.k = "s" THEN u ELSE Scalar(SumOver(u.v, Idx))

VMean(u) ==
    IF u.k = "s" THEN u
    ELSE Scalar(RDiv(SumOver(u.v, Idx), RInt(Cardinality(Idx))))

VPow(u, n) ==
    IF u.k = "s" THEN Scalar(RPow(u.v, n))
    ELSE Matrix([i \in Idx |-> RPow(u.v[i], n)])

(***************************************************************************)
(* Expressions.  None is Python's None; Obj is a Python object that is no  *)
(* tensor and cannot be converted to one; Var is a symbolic matrix         *)
(* placeholder, identified by its name and by who created it; Const is a   *)
(* matrix of given entries.                                                *)
(***************************************************************************)
None == [op |-> "none"]

Obj == [op |-> "object"]

Raise(e) == [op |-> "raise", exc |-> e]

IsRaise(e) == e.op = "raise"

Var(owner, name) == [op |-> "var", owner |-> owner, name |-> name]

Const(m) == [op |-> "const", v |-> m]

IsTensor(e) == e.op \notin {"none", "object", "raise"}

Unary(name, a) ==
    IF IsRaise(a) THEN a
    ELSE IF ~IsTensor(a) THEN Raise("TypeError")
    ELSE [op |-> name, a |-> a]

Binary(name, a, b) ==
    IF IsRaise(a) THEN a
    ELSE IF IsRaise(b) THEN b
    ELSE IF ~IsTensor(a) \/ ~IsTensor(b) THEN Raise("TypeError")
    ELSE [op |-> name, a |-> a, b |-> b]

TSub(a, b) == Binary("sub", a, b)

TMul(a, b) == Binary("mul", a, b)

TDiv(a, b) == Binary("truediv", a, b)

TPow(a, n) ==
    IF IsRaise(a) THEN a
    ELSE IF ~IsTensor(a) THEN Raise("TypeError")
    ELSE [op |-> "pow", a |-> a, n |-> n]

TSum(a) == Unary("sum", a)

TMean(a) == Unary("mean", a)

binary_crossentropy(a, b) == Binary("binary_crossentropy", a, b)

categorical_crossentropy(a, b) == Binary("categorical_crossentropy", a, b)

(***************************************************************************)
(* The free placeholders of an expression, and its value under a binding   *)
(* of them.  The output expression of a layer that is not modelled further *)
(* is a placeholder too.                                                   *)
(***************************************************************************)
RECURSIVE FreeVars(_)
FreeVars(e) ==
    CASE e.op \in {"var", "output"} -> {e}
      [] e.op \in {"sub", "mul", "truediv",
                   "binary_crossentropy", "categorical_crossentropy"} ->
            FreeVars(e.a) \cup FreeVars(e.b)
      [] e.op \in {"pow", "sum", "mean"} -> FreeVars(e.a)
      [] OTHER -> {}

RECURSIVE Arith(_)
Arith(e) ==
    CASE e.op \in {"var", "output", "const"} -> TRUE
      [] e.op \in {"sub", "mul", "truediv"} -> Arith(e.a) /\ Arith(e.b)
      [] e.op \in {"pow", "sum", "mean"} -> Arith(e.a)
      [] OTHER -> FALSE

RECURSIVE Eval(_, _)
Eval(e, b) ==
    CASE e.op = "const" -> Matrix([i \in Idx |-> RInt(e.v[i])])
      [] e.op \in {"var", "output"} -> Matrix([i \in Idx |-> RInt(b[e][i])])
      [] e.op = "sub" -> VSub(Eval(e.a, b), Eval(e.b, b))
      [] e.op = "mul" -> VMul(Eval(e.a, b), Eval(e.b, b))
      [] e.op = "truediv" -> VDiv(Eval(e.a, b), Eval(e.b, b))
      [] e.op = "pow" -> VPow(Eval(e.a, b), e.n)
      [] e.op = "sum" -> VSum(Eval(e.a, b))
      [] e.op = "mean" -> VMean(Eval(e.a, b))

(***************************************************************************)
(* The loss functions of the module, and two loss functions a caller may   *)
(* supply in the three-argument form f(x, t, m) that MaskedObjective       *)
(* documents: mse3 ignores the mask, f3 is opaque and records what it was  *)
(* called with.                                                            *)
(***************************************************************************)
\* As the docstring of mse has it: reduced to the mean over all dimensions.
mse_Reduced(x, t) == TMean(TPow(TSub(x, t), 2))

mse(x, t) == TPow(TSub(x, t), 2)

crossentropy(x, t) == binary_crossentropy(x, t)

multinomial_nll(x, t) == categorical_crossentropy(x, t)

mse3(x, t, m) == mse(x, t)

f3(x, t, m) == [op |-> "call", f |-> "f3", x |-> x, t |-> t, m |-> m]

LossFunctions2 == {"mse", "crossentropy", "multinomial_nll"}

LossFunctions3 == {"mse3", "f3"}

\* loss_function(*argv): a call with the wrong number of arguments raises.
ApplyLoss(f, argv) ==
    IF f \in LossFunctions2
    THEN IF Len(argv) # 2 THEN Raise("TypeError")
         ELSE CASE f = "mse" -> mse(argv[1], argv[2])
                [] f = "crossentropy" -> crossentropy(argv[1], argv[2])
                [] f = "multinomial_nll" -> multinomial_nll(argv[1], argv[2])
    ELSE IF Len(argv) # 3 THEN Raise("TypeError")
         ELSE CASE f = "mse3" -> mse3(argv[1], argv[2], argv[3])
                [] f = "f3" -> f3(argv[1], argv[2], argv[3])

(***************************************************************************)
(* The wrapped layer.  An InputLayer returns the input it is given, or its *)
(* own placeholder when given None; a Layer returns an output expression   *)
(* that depends on everything it was called with; a failing layer raises.  *)
(***************************************************************************)
InputLayer == [kind |-> "InputLayer", input_var |-> Var("layer", "input")]

OpaqueLayer == [kind |-> "Layer"]

FailingLayer == [kind |-> "failing"]

Layers == {InputLayer, OpaqueLayer, FailingLayer}

get_output(layer, input, args, kwargs) ==
    CASE layer.kind = "failing" -> Raise("LayerError")
      [] layer.kind = "InputLayer" ->
            IF input = None THEN layer.input_var ELSE input
      [] layer.kind = "Layer" ->
            [op |-> "output", input |-> input, args |-> args,
             kwargs |-> kwargs]

\* What the layer sees of one get_output call.
GetOutputCall(input, args, kwargs) ==
    [input |-> input, args |-> args, kwargs |-> kwargs]

(***************************************************************************)
(* Constructors.  normalize_mask and the per-call override are "True",     *)
(* "False" or (the override only) "None".                                  *)
(***************************************************************************)
Objective(input_layer, loss_function) ==
    [cls |-> "Objective",
     input_layer |-> input_layer,
     loss_function |-> loss_function,
     target_var |-> Var("self", "target")]

MaskedObjective(input_layer, loss_function, normalize_mask) ==
    [cls |-> "MaskedObjective",
     input_layer |-> input_layer,
     loss_function |-> loss_function,
     target_var |-> Var("self", "target"),
     mask_var |-> Var("self", "mask"),
     normalize_mask |-> normalize_mask]

(***************************************************************************)
(* The steps of get_loss.                                                  *)
(***************************************************************************)
DefaultTarget_Ignored(obj, target) == obj.target_var

DefaultTarget(obj, target) ==
    IF target = None THEN obj.target_var ELSE target

DefaultMask(obj, mask) ==
    IF mask = None THEN obj.mask_var ELSE mask

DefaultNormalize_Or(obj, normalize_mask) ==
    IF normalize_mask = "True" \/ obj.normalize_mask = "True"
    THEN "True" ELSE "False"

DefaultNormalize(obj, normalize_mask) ==
    IF normalize_mask = "None" THEN obj.normalize_mask ELSE normalize_mask

NormalizedMask_ByMean(mask, normalize_mask) ==
    IF normalize_mask = "True" THEN TDiv(mask, TMean(mask)) ELSE mask

NormalizedMask(mask, normalize_mask) ==
    IF normalize_mask = "True" THEN TDiv(mask, TSum(mask)) ELSE mask

ObjectiveLoss_Sum(obj, input, target, args, kwargs) ==
    LET network_output == get_output(obj.input_layer, input, args, kwargs)
        tgt == DefaultTarget(obj, target)
    IN  IF IsRaise(network_output) THEN network_output
        ELSE TSum(ApplyLoss(obj.loss_function, <<network_output, tgt>>))

ObjectiveLoss_Swallow(obj, input, target, args, kwargs) ==
    LET network_output == get_output(obj.input_layer, input, args, kwargs)
        tgt == DefaultTarget(obj, target)
        loss == TMean(ApplyLoss(obj.loss_function, <<network_output, tgt>>))
    IN  IF IsRaise(network_output) \/ IsRaise(loss) THEN None ELSE loss

ObjectiveLoss(obj, input, target, args, kwargs) ==
    LET network_output == get_output(obj.input_layer, input, args, kwargs)
        tgt == DefaultTarget(obj, target)
    IN  IF IsRaise(network_output) THEN network_output
        ELSE TMean(ApplyLoss(obj.loss_function, <<network_output, tgt>>))

MaskedLoss(obj, input, target, mask, normalize_mask, args, kwargs) ==
    LET network_output == get_output(obj.input_layer, input, args, kwargs)
        tgt == DefaultTarget(obj, target)
        msk == NormalizedMask(DefaultMask(obj, mask),
                              DefaultNormalize(obj, normalize_mask))
    IN  IF IsRaise(network_output) THEN network_output
        ELSE IF IsRaise(msk) THEN msk
        ELSE TSum(TMul(ApplyLoss(obj.loss_function,
                                 <<network_output, tgt, msk>>), msk))

\* get_loss rebinds its local names only: the object is as it was.
ObjectiveAfterGetLoss(obj, input, target) == obj

MaskedAfterGetLoss_Persist(obj, input, target, mask, normalize_mask) ==
    [obj EXCEPT !.normalize_mask = DefaultNormalize(obj, normalize_mask)]

MaskedAfterGetLoss(obj, input, target, mask, normalize_mask) == obj

(***************************************************************************)
(* State.  self is the objective, self0 its fields as the constructor set  *)
(* them; calls lists the get_output calls the last operation made on the   *)
(* wrapped layer; call and ret are the last operation and its result; env  *)
(* and val are the binding and the value of the last evaluation of ret.    *)
(***************************************************************************)
NoVal == [k |-> "none"]

NoCall == [fn |-> "none"]

Args == {<<>>, <<"a">>}

Kwargs == {{}, {<<"deterministic", TRUE>>}}

Overrides == {"None", "True", "False"}

SymInputs == {None, Var("user", "X")}

SymTargets == {None, Var("user", "Y"), Obj}

SymMasks == {None, Var("user", "M"), Obj}

Objects ==
    {Objective(l, f) : l \in Layers, f \in LossFunctions2 \cup {"f3"}}
    \cup {MaskedObjective(l, f, n) :
              l \in Layers, f \in LossFunctions3 \cup {"mse"},
              n \in {"True", "False"}}

Init ==
    /\ self \in Objects
    /\ self0 = self
    /\ calls = <<>>
    /\ call = NoCall
    /\ ret = None
    /\ env = <<>>
    /\ val = NoVal

CallLoss(f, x, t) ==
    /\ call' = [fn |-> f, x |-> x, t |-> t]
    /\ ret' = ApplyLoss(f, <<x, t>>)
    /\ calls' = <<>>
    /\ env' = <<>>
    /\ val' = NoVal
    /\ UNCHANGED <<self, self0>>

ObjectiveGetLoss(input, target, args, kwargs) ==
    /\ self.cls = "Objective"
    /\ call' = [fn |-> "Objective.get_loss", input |-> input,
                target |-> target, args |-> args, kwargs |-> kwargs]
    /\ ret' = ObjectiveLoss(self, input, target, args, kwargs)
    /\ calls' = <<GetOutputCall(input, args, kwargs)>>
    /\ self' = ObjectiveAfterGetLoss(self, input, target)
    /\ env' = <<>>
    /\ val' = NoVal
    /\ UNCHANGED self0

MaskedGetLoss(input, target, mask, normalize_mask, args, kwargs) ==
    /\ self.cls = "MaskedObjective"
    /\ call' = [fn |-> "MaskedObjective.get_loss", input |-> input,
                target |-> target, mask |-> mask,
                normalize_mask |-> normalize_mask,
                args |-> args, kwargs |-> kwargs]
    /\ ret' = MaskedLoss(self, input, target, mask, normalize_mask,
                         args, kwargs)
    /\ calls' = <<GetOutputCall(input, args, kwargs)>>
    /\ self' = MaskedAfterGetLoss(self, input, target, mask, normalize_mask)
    /\ env' = <<>>
    /\ val' = NoVal
    /\ UNCHANGED self0

\* The expression is compiled and run on concrete matrices.
Evaluate(b) ==
    /\ val = NoVal
    /\ IsTensor(ret)
    /\ Arith(ret)
    /\ env' = b
    /\ val' = Eval(ret, b)
    /\ UNCHANGED <<self, self0, calls, call, ret>>

Next ==
    \/ \E f \in LossFunctions2, x \in SymInputs \ {None}, t \in SymTargets :
          CallLoss(f, x, t)
    \/ \E i \in SymInputs, t \in SymTargets, a \in Args, k \in Kwargs :
          ObjectiveGetLoss(i, t, a, k)
    \/ \E i \in SymInputs, t \in SymTargets, m \in SymMasks,
          n \in Overrides, a \in Args, k \in Kwargs :
          MaskedGetLoss(i, t, m, n, a, k)

Spec == Init /\ [][Next]_vars

(***************************************************************************)
(* The same operations on concrete data: constant matrices as arguments,   *)
(* and the result evaluated.                                               *)
(***************************************************************************)
Consts == {Const(m) : m \in Mat}

Zeros == [i \in Idx |-> 0]

Ones == [i \in Idx |-> 1]

EvalObjects ==
    {Objective(InputLayer, "mse")}
    \cup {MaskedObjective(InputLayer, "mse3", n) : n \in {"True", "False"}}

InitEval ==
    /\ self \in EvalObjects
    /\ self0 = self
    /\ calls = <<>>
    /\ call = NoCall
    /\ ret = None
    /\ env = <<>>
    /\ val = NoVal

\* One operation on the freshly constructed object, then its evaluation.
FirstMse ==
    /\ call = NoCall
    /\ \E x \in Consts, t \in Consts : CallLoss("mse", x, t)

FirstObjectiveGetLoss ==
    /\ call = NoCall
    /\ \E i \in Consts, t \in Consts \cup {None} :
          ObjectiveGetLoss(i, t, <<>>, {})

FirstMaskedGetLoss ==
    /\ call = NoCall
    /\ \E i \in Consts, t \in {Const(Zeros), Const(Ones)},
          m \in Consts \cup {None}, n \in Overrides :
          MaskedGetLoss(i, t, m, n, <<>>, {})

EvaluateResult ==
    /\ val = NoVal
    /\ \E b \in [FreeVars(ret) -> Mat] : Evaluate(b)

NextEval ==
    \/ FirstMse
    \/ FirstObjectiveGetLoss
    \/ FirstMaskedGetLoss
    \/ EvaluateResult

SpecEval == InitEval /\ [][NextEval]_vars

(***************************************************************************)
(* Properties.                                                             *)
(***************************************************************************)
IsObjectiveCall == call.fn = "Objective.get_loss"

IsMaskedCall == call.fn = "MaskedObjective.get_loss"

IsGetLoss == IsObjectiveCall \/ IsMaskedCall

Returned == IsGetLoss /\ IsTensor(ret)

\* The loss values inside a returned loss, the mask that multiplies them,
\* and the target the loss function was given.
LossNode == IF IsObjectiveCall THEN ret.a ELSE ret.a.a

AppliedMask == ret.a.b

LossTarget(e) ==
    CASE e.op = "pow" -> e.a.b
      [] e.op \in {"binary_crossentropy", "categorical_crossentropy"} -> e.b
      [] e.op = "call" -> e.t

RECURSIVE IntSum(_, _)
IntSum(f, S) ==
    IF S = {} THEN 0
    ELSE LET i == CHOOSE j \in S : TRUE IN f[i] + IntSum(f, S \ {i})

\* C1: get_loss without a target computes the loss against the object's
\* own placeholder target_var, as the constructor created it, and with a
\* target against exactly the supplied one, in every call of any sequence.
C1_TargetDefault ==
    Returned =>
        /\ call.target = None => LossTarget(LossNode) = Var("self", "target")
        /\ call.target = None => LossTarget(LossNode) = self0.target_var
        /\ call.target # None =>
              /\ LossTarget(LossNode) = call.target
              /\ LossTarget(LossNode) # self0.target_var

C1_Witness ==
    /\ IsMaskedCall
    /\ IsTensor(ret)
    /\ call.target = Var("user", "Y")
    /\ LossTarget(LossNode) = Var("user", "Y")

C6_Expected ==
    CASE call.normalize_mask = "None" -> self0.normalize_mask = "True"
      [] call.normalize_mask = "True" -> TRUE
      [] call.normalize_mask = "False" -> FALSE

\* C6: normalize_mask=None uses the constructor's value and a bool
\* overrides it in either direction.
C6_NormalizeOverride ==
    (IsMaskedCall /\ IsTensor(ret)) =>
        (AppliedMask.op = "truediv" <=> C6_Expected)

C6_Witness ==
    /\ IsMaskedCall
    /\ IsTensor(ret)
    /\ self0.normalize_mask = "True"
    /\ call.normalize_mask = "False"
    /\ AppliedMask = call.mask
    /\ call.mask = Var("user", "M")

C7_NetworkOutput ==
    get_output(self0.input_layer, call.input, call.args, call.kwargs)

C7_ExpectedTarget ==
    IF call.target = None THEN self0.target_var ELSE call.target

\* C7: Objective.get_loss returns the mean over loss_function(network_output,
\* target), network_output coming from exactly one get_output call with the
\* caller's input, args and kwargs; MaskedObjective.get_loss returns the sum
\* over loss_function(network_output, target, mask) * mask.
C7_MeanAndSum ==
    /\ IsGetLoss =>
          calls = <<[input |-> call.input, args |-> call.args,
                     kwargs |-> call.kwargs]>>
    /\ (IsObjectiveCall /\ IsTensor(ret)) =>
          /\ ret.op = "mean"
          /\ ret.a = ApplyLoss(self0.loss_function,
                               <<C7_NetworkOutput, C7_ExpectedTarget>>)
          /\ C7_NetworkOutput.op = "output" =>
                /\ C7_NetworkOutput.input = call.input
                /\ C7_NetworkOutput.args = call.args
                /\ C7_NetworkOutput.kwargs = call.kwargs
    /\ (IsMaskedCall /\ IsTensor(ret)) =>
          /\ ret.op = "sum"
          /\ ret.a.op = "mul"
          /\ ret.a.a = ApplyLoss(self0.loss_function,
                                 <<C7_NetworkOutput, C7_ExpectedTarget,
                                   ret.a.b>>)
          /\ ret.a.b \in {call.mask, self0.mask_var}
             \/ (ret.a.b.op = "truediv"
                 /\ ret.a.b.a \in {call.mask, self0.mask_var})

C7_Witness ==
    /\ IsObjectiveCall
    /\ ret.op = "mean"
    /\ call.input = Var("user", "X")
    /\ call.args = <<"a">>
    /\ call.kwargs # {}
    /\ self.input_layer.kind = "Layer"
    /\ ret.a.op = "pow"
    /\ ret.a.a.a.args = <<"a">>

C8_Arity == IF self0.loss_function \in LossFunctions2 THEN 2 ELSE 3

\* C8: a failure of get_output, of the loss function or of a tensor
\* operation during get_loss reaches the caller as that failure, and the
\* object's fields are as before the call.
C8_Propagates ==
    IsGetLoss =>
        /\ self0.input_layer.kind = "failing" => ret = Raise("LayerError")
        /\ (self0.input_layer.kind # "failing"
            /\ C8_Arity # (IF IsObjectiveCall THEN 2 ELSE 3))
              => ret = Raise("TypeError")
        /\ (self0.input_layer.kind # "failing" /\ IsMaskedCall
            /\ call.mask = Obj)
              => ret = Raise("TypeError")
        /\ (self0.input_layer.kind # "failing" /\ IsObjectiveCall
            /\ call.target = Obj)
              => ret = Raise("TypeError")
        /\ IsRaise(ret) => self = self0

C8_Witness ==
    /\ IsObjectiveCall
    /\ self.input_layer.kind = "failing"
    /\ ret = Raise("LayerError")
    /\ self = self0

C9_Fresh ==
    IF self0.cls = "Objective"
    THEN Objective(self0.input_layer, self0.loss_function)
    ELSE MaskedObjective(self0.input_layer, self0.loss_function,
                         self0.normalize_mask)

C9_DefaultCall ==
    /\ IsGetLoss
    /\ call.input = None
    /\ call.target = None
    /\ call.args = <<>>
    /\ call.kwargs = {}
    /\ IsMaskedCall => (call.mask = None /\ call.normalize_mask = "None")

\* C9: get_loss leaves input_layer, loss_function, target_var, mask_var and
\* normalize_mask as the constructor set them, and a call with the defaults
\* gives what it gives on a freshly constructed object.
C9_Unchanged ==
    /\ self = self0
    /\ self = C9_Fresh
    /\ C9_DefaultCall =>
          ret = IF IsObjectiveCall
                THEN ObjectiveLoss(C9_Fresh, None, None, <<>>, {})
                ELSE MaskedLoss(C9_Fresh, None, None, None, "None", <<>>, {})

C9_Witness ==
    /\ IsMaskedCall
    /\ IsTensor(ret)
    /\ call.target = Var("user", "Y")
    /\ call.mask = Var("user", "M")
    /\ call.normalize_mask = "True"
    /\ self0.normalize_mask = "False"
    /\ self.normalize_mask = "False"
    /\ self.target_var = Var("self", "target")
    /\ self.mask_var = Var("self", "mask")

(***************************************************************************)
(* Properties of the values, under SpecEval.                               *)
(***************************************************************************)
Evaluated == val # NoVal

\* The concrete matrices of an evaluated MaskedObjective.get_loss call.
EvMask == IF call.mask = None THEN env[self0.mask_var] ELSE call.mask.v

EvLoss == [i \in Idx |-> (call.input.v[i] - call.target.v[i])
                         * (call.input.v[i] - call.target.v[i])]

EvMaskSum == IntSum(EvMask, Idx)

EvWeighted == IntSum([i \in Idx |-> EvLoss[i] * EvMask[i]], Idx)

EvNormalize ==
    CASE call.normalize_mask = "None" -> self0.normalize_mask = "True"
      [] call.normalize_mask = "True" -> TRUE
      [] call.normalize_mask = "False" -> FALSE

C2_ExpectedMask == IF call.mask = None THEN self0.mask_var ELSE call.mask

\* C2: with normalisation in effect the mask that weights the loss values
\* is mask / sum(mask), for a supplied mask and for the default mask_var;
\* without it the mask is applied unchanged.
C2_NormalizedMask ==
    /\ (IsMaskedCall /\ IsTensor(ret)) =>
          AppliedMask =
              IF EvNormalize
              THEN [op |-> "truediv", a |-> C2_ExpectedMask,
                    b |-> [op |-> "sum", a |-> C2_ExpectedMask]]
              ELSE C2_ExpectedMask
    /\ (IsMaskedCall /\ Evaluated) =>
          /\ val.k = "s"
          /\ (EvNormalize /\ EvMaskSum # 0) =>
                /\ val.v[2] > 0
                /\ val.v[1] * EvMaskSum = val.v[2] * EvWeighted
          /\ (EvNormalize /\ EvMaskSum = 0) => val.v = NaN
          /\ ~EvNormalize => val.v = <<EvWeighted, 1>>

C2_Witness ==
    /\ IsMaskedCall
    /\ Evaluated
    /\ EvNormalize
    /\ call.mask # None
    /\ EvMaskSum > 1
    /\ EvWeighted > 0
    /\ val.v # <<EvWeighted, 1>>
    /\ val.v[1] * EvMaskSum = val.v[2] * EvWeighted

C4_SquaredSum ==
    IntSum([i \in Idx |-> (call.x.v[i] - call.t.v[i])
                          * (call.x.v[i] - call.t.v[i])], Idx)

\* C4: mse(x, t) is a single value, the mean of (x - t)^2 over all
\* dimensions.
C4_MeanOverAll ==
    (call.fn = "mse" /\ Evaluated) =>
        /\ val.k = "s"
        /\ val.v[2] > 0
        /\ val.v[1] * Cardinality(Idx) = val.v[2] * C4_SquaredSum

\* C5: MaskedObjective.get_loss with mask=None applies no mask: the loss is
\* the unweighted sum of the loss values (stated for the calls that do not
\* normalise, where the sum of the loss values is the whole result).
C5_NoMask ==
    (IsMaskedCall /\ Evaluated /\ call.mask = None /\ ~EvNormalize) =>
        /\ val.k = "s"
        /\ val.v = <<IntSum(EvLoss, Idx), 1>>

====
